---- MODULE Spec2Model ----
(***************************************************************************)
(* Model of the useAudioProcessor hook (src/unnamed/part_000): the        *)
(* transport (play / pause / stop / loadFile), the position poll          *)
(* scheduled with requestAnimationFrame, the end-of-signal callback of    *)
(* the AudioBufferSourceNode, the Parameter Mapper (updateParams) and the *)
(* offline render (exportAudio).                                          *)
(*                                                                        *)
(* Units.  Times are integers; a file of duration d and a percentage p    *)
(* give the time (p * d) / 100, which is exact for the durations and      *)
(* percentages drawn here.  Gains of GainNodes are in tenths (1.0 = 10),  *)
(* the wet level is in 1/200 (roomSize/100 * 0.5 = roomSize), the gains   *)
(* of the shelving and peaking filters are in half decibels, so that      *)
(* (v - 50) / 2 dB is the integer v - 50 for every integer v.  Samples    *)
(* of an AudioBuffer are numerators over SampleScale.                     *)
(***************************************************************************)
EXTENDS Integers, Sequences, FiniteSets, TLC

\* ---------------------------------------------------------------- bounds
MaxElapsed == 3
MaxReaders == 2
MaxInflight == 1
MaxFrames == 46
MaxSample == 6

\* ------------------------------------------------------- program constants
NumBands == 23
SampleRate == 44100

\* Centre frequencies of the peaking bands in tenths of a hertz (31.5 Hz is
\* 315), in the order the nodes are created.
FREQS ==
    <<200, 250, 315, 400, 500, 630, 800, 1000, 1250, 1600, 2000, 2500,
      3150, 4000, 5000, 6300, 8000, 10000, 12500, 16000, 20000, 25000, 31500>>

\* ------------------------------------------------------------ environment
\* Uploadable files: id, duration of the decoded buffer, and whether
\* decodeAudioData accepts them.
FileIds == {1, 2, 3}
FileDuration(f) == IF f = 1 THEN 4 ELSE IF f = 2 THEN 2 ELSE 0
Decodable(f) == f \in {1, 2}

\* The file uploaded in the transport and parameter specifications.
TransportFiles == {2}

\* The files uploaded in the upload specification: a longer and a shorter
\* one that decode, and one that does not.
UploadFiles == {1, 2, 3}

\* Percentages the trim window is drawn from.
Pcts == {0, 50, 100}

\* ctx.currentTime.  The code uses the audio clock only in differences
\* (ctx.currentTime - startTimeRef.current, and the time a started source
\* still has to play), so the time origin is moved to the present instant
\* at every step: the clock reads 0 and AdvanceClock shifts the stored
\* times instead.
now == 0

VARIABLES
    ctxPresent,         \* audioContextRef.current # null
    audioBufferRef,     \* 0 = null, else the id of the decoded file
    sourceNodeRef,      \* 0 = null, else index into readers
    startTimeRef,
    pauseTimeRef,
    animationFrameRef,  \* 0 = null, else the id of the last requested frame
    isPlaying,          \* state.isPlaying
    currentTime,        \* state.currentTime
    duration,           \* state.duration
    readers,            \* every AudioBufferSourceNode created by play(), in creation order
    rafPending,         \* requested frames: the tick closures waiting to run
    graph,              \* parameters of the persistent realtime nodes
    inflight,           \* loadFile calls awaiting decode, per file
    exportResult,       \* outcome of the last exportAudio call
    raised,             \* the last operation threw / rejected
    wav,                \* the last buffer handed to audioBufferToWav, and its encoding
    cutRange,           \* Home's cutRange state: <<cutStart, cutEnd>> in percent
    cutInput            \* Home's cutInput state: the text of the time-range field

vars == <<ctxPresent, audioBufferRef, sourceNodeRef, startTimeRef, pauseTimeRef,
          animationFrameRef, isPlaying, currentTime, duration, readers, rafPending,
          graph, inflight, exportResult, raised, wav, cutRange, cutInput>>

\* ------------------------------------------------------------- controls
\* Home's initial control state (part_001:335-345) with a cut range.
DefaultControls ==
    [pitch |-> 50, booster |-> FALSE, roomSize |-> 30, fullRoom |-> FALSE,
     bass |-> 50, treble |-> 50, beautify |-> TRUE, mastered |-> FALSE,
     eqBands |-> [i \in 1..NumBands |-> 50], cutStart |-> 0, cutEnd |-> 100]

\* Controls passed to play(): every trim window, default effect settings.
TransportControls ==
    {[DefaultControls EXCEPT !.cutStart = a, !.cutEnd = b] : a \in Pcts, b \in Pcts}

\* Controls passed to updateParams() and exportAudio(): every preset
\* combination, reverb off and on, over a whole, an empty and a reversed
\* trim window.
ParamControls ==
    {[DefaultControls EXCEPT !.beautify = be, !.mastered = ma, !.booster = bo,
                             !.pitch = pi, !.roomSize = rs,
                             !.cutStart = w[1], !.cutEnd = w[2]] :
        be \in BOOLEAN, ma \in BOOLEAN, bo \in BOOLEAN, pi \in {50, 100},
        rs \in {0, 30}, w \in {<<0, 100>>, <<50, 50>>, <<100, 0>>}}

\* eqBands with one band moved to a value, the others at 50.
OneBand(i, v) == [DefaultControls.eqBands EXCEPT ![i] = v]

\* Controls passed to play() and updateParams() in the mapper
\* specification: the default controls with the presets, the pitch, a
\* shelf or one equaliser band changed.
MapperControls ==
    {[DefaultControls EXCEPT !.beautify = be, !.mastered = ma, !.booster = bo] :
        be \in BOOLEAN, ma \in BOOLEAN, bo \in BOOLEAN}
    \cup {[DefaultControls EXCEPT !.pitch = v] : v \in Pcts}
    \cup {[DefaultControls EXCEPT !.bass = v] : v \in Pcts}
    \cup {[DefaultControls EXCEPT !.treble = v] : v \in Pcts}
    \cup {[DefaultControls EXCEPT !.eqBands = OneBand(i, v)] :
             i \in {1, NumBands}, v \in Pcts}

\* The contents createReverbBuffer can fill an impulse with: every sample is
\* (Math.random() * 2 - 1) * decay, so two calls give different contents.
Impulses == {1, 2}

\* ---------------------------------------------------------------- state
\* The hook's refs and React state, gathered so that the handlers below can
\* be written as state transformers that call each other as the code does.
Cur ==
    [audioBufferRef |-> audioBufferRef, sourceNodeRef |-> sourceNodeRef,
     startTimeRef |-> startTimeRef, pauseTimeRef |-> pauseTimeRef,
     animationFrameRef |-> animationFrameRef, isPlaying |-> isPlaying,
     currentTime |-> currentTime, duration |-> duration, readers |-> readers,
     rafPending |-> rafPending, graph |-> graph, raised |-> FALSE]

\* A source node that has delivered its ended event and is no longer held
\* in sourceNodeRef can no longer act or be acted on: it is garbage, and
\* every such node looks alike.  A halted node never plays the window it
\* was started for, so that window is forgotten with it.
DeadReader ==
    [started |-> TRUE, halted |-> TRUE, connected |-> FALSE, ended |-> TRUE,
     detune |-> 0, endsIn |-> 0, cutStartTime |-> 0, cutEndTime |-> 0]

Collect(st) ==
    [i \in 1..Len(st.readers) |->
        IF st.readers[i].ended /\ st.sourceNodeRef # i THEN DeadReader
        ELSE IF st.readers[i].halted
             THEN [st.readers[i] EXCEPT !.cutStartTime = 0, !.cutEndTime = 0,
                                        !.detune = 0]
             ELSE st.readers[i]]

Commit(st) ==
    /\ audioBufferRef' = st.audioBufferRef
    /\ sourceNodeRef' = st.sourceNodeRef
    /\ startTimeRef' = st.startTimeRef
    /\ pauseTimeRef' = st.pauseTimeRef
    /\ animationFrameRef' = st.animationFrameRef
    /\ isPlaying' = st.isPlaying
    /\ currentTime' = st.currentTime
    /\ duration' = st.duration
    /\ readers' = Collect(st)
    /\ rafPending' = st.rafPending
    /\ graph' = st.graph
    /\ raised' = st.raised

\* An audio node of either graph: its kind (for a biquad filter its type)
\* and, for a filter, its frequency in tenths of a hertz.
Node(type, freq) == [type |-> type, freq |-> freq]

\* eqNodesRef.current: one peaking filter per entry of freqs, in order.
eqNodes == [i \in 1..Len(FREQS) |-> Node("peaking", FREQS[i])]

bassNode == Node("lowshelf", 2000)
trebleNode == Node("highshelf", 30000)

\* The connections made by connecting each node of a sequence to the next.
Chain(nodes) == {<<nodes[i], nodes[i + 1]>> : i \in 1..(Len(nodes) - 1)}

\* Nodes as created by the initialising effect: GainNode gain 1.0, biquad
\* gains 0, DynamicsCompressorNode defaults, no wet-gain node yet (-1),
\* nothing connected.
InitGraph ==
    [gain |-> 10, bass |-> 0, treble |-> 0, eq |-> [i \in 1..Len(eqNodes) |-> 0],
     threshold |-> -24, knee |-> 30, ratio |-> 12, wet |-> -1, edges |-> {}]

\* The connections play() makes after disconnecting every persistent node:
\* source -> eq bands -> bass -> treble -> compressor, then the wet path
\* through roomGain and the convolver and the dry path, both into the master
\* gain, then the analyser and the destination.
playEdges ==
    Chain(<<Node("source", 0)>> \o eqNodes
              \o <<bassNode, trebleNode, Node("compressor", 0)>>)
    \cup Chain(<<Node("compressor", 0), Node("roomGain", 0), Node("convolver", 0),
                Node("mainGain", 0)>>)
    \cup Chain(<<Node("compressor", 0), Node("mainGain", 0), Node("analyser", 0),
                Node("destination", 0)>>)

\* The connections exportAudio() makes in the offline context.
exportEdges ==
    Chain(<<Node("source", 0), bassNode, trebleNode, Node("compressor", 0)>>)
    \cup Chain(<<Node("compressor", 0), Node("roomGain", 0), Node("convolver", 0),
                Node("mainGain", 0)>>)
    \cup Chain(<<Node("compressor", 0), Node("mainGain", 0),
                Node("destination", 0)>>)

\* ------------------------------------------------------ platform helpers
\* AudioScheduledSourceNode.stop(): InvalidStateError before start().
StopThrows(st, id) == ~st.readers[id].started

\* A stop() that leaves the node playing.
HaltReader_Skipped(st, id) == st

\* source.stop() on a started node: it falls silent at once (it has no
\* time left to play); its ended event is delivered later.
HaltReader(st, id) ==
    [st EXCEPT !.readers[id].halted = TRUE, !.readers[id].endsIn = 0]

\* cancelAnimationFrame(id): drops the frame if it is still requested.
CancelFrame(st, id) ==
    [st EXCEPT !.rafPending = {l \in @ : l.id # id}]

\* (pct / 100) * totalDuration
CutTime(pct, total) == (pct * total) \div 100

Max(a, b) == IF a >= b THEN a ELSE b

\* ------------------------------------------------------------- handlers
\* A stop() that keeps the resume position.
stop_KeepsResume(st) ==
    LET s1 == IF st.sourceNodeRef # 0
              THEN [HaltReader(st, st.sourceNodeRef) EXCEPT !.sourceNodeRef = 0]
              ELSE st
        s2 == [s1 EXCEPT !.isPlaying = FALSE, !.currentTime = 0]
    IN  IF s2.animationFrameRef # 0 THEN CancelFrame(s2, s2.animationFrameRef) ELSE s2

\* stop()
stop(st) ==
    LET s1 == IF st.sourceNodeRef # 0
              THEN [(IF StopThrows(st, st.sourceNodeRef) THEN st
                     ELSE HaltReader(st, st.sourceNodeRef))
                    EXCEPT !.sourceNodeRef = 0]
              ELSE st
        s2 == [s1 EXCEPT !.pauseTimeRef = 0, !.isPlaying = FALSE, !.currentTime = 0]
    IN  IF s2.animationFrameRef # 0 THEN CancelFrame(s2, s2.animationFrameRef) ELSE s2

\* pause()
pause(st) ==
    IF st.sourceNodeRef # 0 /\ ctxPresent
    THEN IF StopThrows(st, st.sourceNodeRef)
         THEN [st EXCEPT !.raised = TRUE]
         ELSE LET s1 == HaltReader(st, st.sourceNodeRef)
                  s2 == [s1 EXCEPT !.pauseTimeRef = now - st.startTimeRef,
                                   !.isPlaying = FALSE]
              IN  IF s2.animationFrameRef # 0
                  THEN CancelFrame(s2, s2.animationFrameRef) ELSE s2
    ELSE st

\* An updateParams whose compressor section tests beautify only.
updateParams_BeautifyOnly(st, c) ==
    IF ~ctxPresent THEN st
    ELSE
    LET s1 == IF st.sourceNodeRef # 0
              THEN [st EXCEPT !.readers[st.sourceNodeRef].detune = (c.pitch - 50) * 24]
              ELSE st
    IN  [s1 EXCEPT
           !.graph.gain = 10 + (IF c.booster THEN 15 ELSE 0),
           !.graph.bass = c.bass - 50,
           !.graph.treble = c.treble - 50,
           !.graph.eq = [i \in 1..Len(eqNodes) |->
                           IF i <= Len(c.eqBands) THEN c.eqBands[i] - 50
                           ELSE @[i]],
           !.graph.threshold = IF c.beautify THEN -24 ELSE 0,
           !.graph.knee = IF c.beautify THEN 30 ELSE @,
           !.graph.ratio = IF c.beautify THEN 12 ELSE 1]

\* An updateParams that gives every band the value of the next one.
updateParams_BandShifted(st, c) ==
    IF ~ctxPresent THEN st
    ELSE
    LET s1 == IF st.sourceNodeRef # 0
              THEN [st EXCEPT !.readers[st.sourceNodeRef].detune = (c.pitch - 50) * 24]
              ELSE st
    IN  [s1 EXCEPT
           !.graph.gain = 10 + (IF c.booster THEN 15 ELSE 0),
           !.graph.bass = c.bass - 50,
           !.graph.treble = c.treble - 50,
           !.graph.eq = [i \in 1..Len(eqNodes) |->
                           IF i + 1 <= Len(c.eqBands) THEN c.eqBands[i + 1] - 50
                           ELSE @[i]],
           !.graph.threshold = IF c.beautify \/ c.mastered
                               THEN (IF c.mastered THEN -20 ELSE -24) ELSE 0,
           !.graph.knee = IF c.beautify \/ c.mastered THEN 30 ELSE @,
           !.graph.ratio = IF c.beautify \/ c.mastered
                           THEN (IF c.mastered THEN 20 ELSE 12) ELSE 1]

\* updateParams(controls): the values the ramps and writes settle on.
updateParams(st, c) ==
    IF ~ctxPresent THEN st
    ELSE
    LET s1 == IF st.sourceNodeRef # 0
              THEN [st EXCEPT !.readers[st.sourceNodeRef].detune = (c.pitch - 50) * 24]
              ELSE st
    IN  [s1 EXCEPT
           !.graph.gain = 10 + (IF c.booster THEN 15 ELSE 0),
           !.graph.bass = c.bass - 50,
           !.graph.treble = c.treble - 50,
           !.graph.eq = [i \in 1..Len(eqNodes) |->
                           IF i <= Len(c.eqBands) THEN c.eqBands[i] - 50
                           ELSE @[i]],
           !.graph.threshold = IF c.beautify \/ c.mastered
                               THEN (IF c.mastered THEN -20 ELSE -24) ELSE 0,
           !.graph.knee = IF c.beautify \/ c.mastered THEN 30 ELSE @,
           !.graph.ratio = IF c.beautify \/ c.mastered
                           THEN (IF c.mastered THEN 20 ELSE 12) ELSE 1]

\* A startOffset that is not reset at or after the end of the window.
startOffset_NoEndReset(p, cutStartTime, cutEndTime) ==
    IF p < cutStartTime THEN cutStartTime ELSE p

\* startOffset of play(), lines 309-311.
startOffset(p, cutStartTime, cutEndTime) ==
    LET o1 == IF p < cutStartTime THEN cutStartTime ELSE p
    IN  IF o1 >= cutEndTime THEN cutStartTime ELSE o1

\* tick() of one play() call; l is its closure: the id of the frame it
\* requests (that of the reader the call created) and the call's
\* cutStartTime and cutEndTime.
tick(st, l) ==
    IF st.sourceNodeRef = 0 THEN st
    ELSE LET current == now - st.startTimeRef
         IN  IF current >= l.cutEndTime
             THEN [stop(st) EXCEPT !.pauseTimeRef = l.cutStartTime]
             ELSE [st EXCEPT !.currentTime = current,
                             !.animationFrameRef = l.id,
                             !.rafPending = @ \cup {l}]

\* play(controls)
play(st, c) ==
    IF ~ctxPresent \/ st.audioBufferRef = 0 THEN st
    ELSE
    LET old == st.sourceNodeRef
        s1 == IF old # 0
              THEN [(IF StopThrows(st, old) THEN st ELSE HaltReader(st, old))
                    EXCEPT !.readers[old].connected = FALSE]
              ELSE st
        id == Len(st.readers) + 1
        totalDuration == FileDuration(st.audioBufferRef)
        cutStartTime == CutTime(c.cutStart, totalDuration)
        cutEndTime == CutTime(c.cutEnd, totalDuration)
        off == startOffset(st.pauseTimeRef, cutStartTime, cutEndTime)
        source == [started |-> TRUE, halted |-> FALSE, connected |-> TRUE,
                   ended |-> FALSE, detune |-> (c.pitch - 50) * 24,
                   endsIn |-> Max(0, cutEndTime - off),
                   cutStartTime |-> cutStartTime, cutEndTime |-> cutEndTime]
        s2 == [s1 EXCEPT !.readers = Append(@, source), !.sourceNodeRef = id,
                         !.graph.edges = playEdges,
                         !.graph.wet = c.roomSize * (IF c.fullRoom THEN 2 ELSE 1)]
        s3 == updateParams(s2, c)
        s4 == [s3 EXCEPT !.startTimeRef = now - off, !.isPlaying = TRUE]
    IN  tick(s4, [id |-> id, cutStartTime |-> cutStartTime, cutEndTime |-> cutEndTime])

\* source.onended
onended(st) ==
    CancelFrame([st EXCEPT !.isPlaying = FALSE], st.animationFrameRef)

\* loadFile(file), first part: up to the first await.
loadFileBegin(st) == stop(st)

\* loadFile(file), after decodeAudioData resolved.
loadFileEnd(st, f) ==
    [st EXCEPT !.audioBufferRef = f, !.duration = FileDuration(f),
               !.currentTime = 0, !.pauseTimeRef = 0]

\* loadFile(file), decodeAudioData rejected: the promise loadFile returned
\* rejects, nothing after the await runs.
loadFileFail(st) == [st EXCEPT !.raised = TRUE]

\* A render whose detune spans half the range.
render_HalfDetune(st, c, impulse) ==
    LET totalDuration == FileDuration(st.audioBufferRef)
        cutStartTime == CutTime(c.cutStart, totalDuration)
        cutEndTime == CutTime(c.cutEnd, totalDuration)
        renderDuration == cutEndTime - cutStartTime
    IN  IF renderDuration * SampleRate <= 0 THEN [kind |-> "raised"]
        ELSE [kind |-> "buffer",
              frames |-> renderDuration * SampleRate,
              offset |-> cutStartTime,
              length |-> renderDuration,
              detune |-> (c.pitch - 50) * 12,
              bass |-> c.bass - 50,
              treble |-> c.treble - 50,
              threshold |-> IF c.beautify THEN -24 ELSE 0,
              knee |-> 30,
              ratio |-> IF c.beautify THEN 12 ELSE 1,
              wet |-> c.roomSize * (IF c.fullRoom THEN 2 ELSE 1),
              reverb |-> IF c.roomSize * (IF c.fullRoom THEN 2 ELSE 1) = 0
                         THEN 0 ELSE impulse,
              gain |-> IF c.booster THEN 15 ELSE 10,
              edges |-> exportEdges]

\* exportAudio(controls) past its guard: the rendered buffer, given by the
\* parameters of the offline graph and by what the convolver adds to the
\* signal (nothing when roomGain is 0, else the source convolved with the
\* impulse that createReverbBuffer drew for this render); or "raised" when
\* renderDuration <= 0: the OfflineAudioContext constructor rejects a length
\* of zero frames with NotSupportedError, and for a negative renderDuration
\* either the constructor throws or source.start() rejects the negative
\* duration with RangeError.  exportAudio is async, so the exception is a
\* rejection of the promise it returned.
render(st, c, impulse) ==
    LET totalDuration == FileDuration(st.audioBufferRef)
        cutStartTime == CutTime(c.cutStart, totalDuration)
        cutEndTime == CutTime(c.cutEnd, totalDuration)
        renderDuration == cutEndTime - cutStartTime
    IN  IF renderDuration * SampleRate <= 0 THEN [kind |-> "raised"]
        ELSE [kind |-> "buffer",
              frames |-> renderDuration * SampleRate,
              offset |-> cutStartTime,
              length |-> renderDuration,
              detune |-> (c.pitch - 50) * 24,
              bass |-> c.bass - 50,
              treble |-> c.treble - 50,
              threshold |-> IF c.beautify THEN -24 ELSE 0,
              knee |-> 30,
              ratio |-> IF c.beautify THEN 12 ELSE 1,
              wet |-> c.roomSize * (IF c.fullRoom THEN 2 ELSE 1),
              reverb |-> IF c.roomSize * (IF c.fullRoom THEN 2 ELSE 1) = 0
                         THEN 0 ELSE impulse,
              gain |-> IF c.booster THEN 15 ELSE 10,
              edges |-> exportEdges]

\* An exportAudio without the check for a loaded source.
exportAudio_NoSourceCheck(st, c, impulse) == render(st, c, impulse)

\* exportAudio(controls): null with no source loaded.
exportAudio(st, c, impulse) ==
    IF st.audioBufferRef = 0 THEN [kind |-> "null"] ELSE render(st, c, impulse)

\* ----------------------------------------------------------- WAV encoder
\* audioBufferToWav of the Home page (src/unnamed/part_001).
\* A sample is a Float32; the model holds the numerator n of n / SampleScale.
\* SampleScale is a power of two, so every sample is a Float32 and the
\* products with 32768 and 32767 are exact in double arithmetic.
SampleScale == 4

\* Channels of the buffer startRendering() resolves to.
NumberOfChannels == 2

\* Byte offset of the data area in the DataView.
DataOffset == 44

\* The sample at frame p of channel i of the buffer numbered seed: every
\* value from -MaxSample to MaxSample (beyond +-1.0, for the clamp) occurs,
\* next to different neighbours.
ChannelData(seed, i, p) ==
    ((seed + 5 * i + 3 * p) % (2 * MaxSample + 1)) - MaxSample

\* Rendered buffers handed to the encoder.
Buffers ==
    {[numberOfChannels |-> NumberOfChannels, length |-> len,
      sampleRate |-> SampleRate,
      channels |-> [i \in 0..(NumberOfChannels - 1) |->
                      [p \in 0..(len - 1) |-> ChannelData(seed, i, p)]]] :
        len \in 1..MaxFrames, seed \in 0..(2 * MaxSample)}

Min(a, b) == IF a <= b THEN a ELSE b

\* x | 0 on a quotient a / b (b > 0): truncation toward zero.
Trunc(a, b) == IF a >= 0 THEN a \div b ELSE -((-a) \div b)

\* DataView.setInt16 stores the value modulo 2^16 as a signed integer.
ToInt16(v) == ((v + 32768) % 65536) - 32768

\* A scaling that takes every negative sample times 32768.
scaleSample_SignTest(n) ==
    LET sample == Max(-SampleScale, Min(SampleScale, n))
    IN  Trunc(IF sample < 0 THEN sample * 32768 ELSE sample * 32767, SampleScale)

\* Lines 510-511: clamp, then (0.5 + sample < 0 ? sample * 32768 :
\* sample * 32767) | 0.  The test is (0.5 + sample) < 0.
scaleSample(n) ==
    LET sample == Max(-SampleScale, Min(SampleScale, n))
    IN  Trunc(IF SampleScale + 2 * sample < 0 THEN sample * 32768
              ELSE sample * 32767, SampleScale)

encodeSample(n) == ToInt16(scaleSample(n))

\* Sizes in bytes of the header fields, in the order setUint32 / setUint16
\* write them; each write advances pos by its size.
HeaderSizes == <<4, 4, 4, 4, 4, 2, 2, 4, 4, 2, 2, 4, 4>>

RECURSIVE PosAfter(_)
\* pos after the first n header fields.
PosAfter(n) == IF n = 0 THEN 0 ELSE PosAfter(n - 1) + HeaderSizes[n]

RECURSIVE writeData(_, _, _, _)
\* The loop "while (pos < buffer.length)": view holds the 16-bit slots of the
\* data area, slot k at byte DataOffset + 2 * (k - 1).
writeData(buffer, pos, offset, view) ==
    IF pos < buffer.length
    THEN writeData(buffer, pos + 1, offset + 2 * buffer.numberOfChannels,
             [k \in DOMAIN view |->
                 LET i == k - 1 - (offset \div 2)
                 IN  IF i \in 0..(buffer.numberOfChannels - 1)
                     THEN encodeSample(buffer.channels[i][pos])
                     ELSE view[k]])
    ELSE view

\* audioBufferToWav(buffer): the header fields and the data area.  pos is the
\* one counter the header writes advance and the data loop then reads
\* frames with.
audioBufferToWav(buffer) ==
    LET numOfChan == buffer.numberOfChannels
        length == buffer.length * numOfChan * 2 + 44
        chunkLengthAt == Len(HeaderSizes) - 1
        pos == PosAfter(Len(HeaderSizes))
        zeroed == [k \in 1..((length - DataOffset) \div 2) |-> 0]
    IN  [riffLength |-> length - 8,
         numOfChan |-> numOfChan,
         sampleRate |-> buffer.sampleRate,
         byteRate |-> buffer.sampleRate * 2 * numOfChan,
         blockAlign |-> numOfChan * 2,
         bitsPerSample |-> 16,
         dataLength |-> length - PosAfter(chunkLengthAt) - 4,
         data |-> writeData(buffer, pos, 0, zeroed)]

\* ------------------------------------------------------- time-range field
\* handleCutInputChange of the Home page (src/unnamed/part_001).  The text of
\* the field is a sequence of tokens: a run of digits, or one other
\* character.  The runs of digits that occur, with their parseInt value.
DigitRuns ==
    ("0" :> 0) @@ ("1" :> 1) @@ ("00" :> 0) @@ ("01" :> 1) @@ ("02" :> 2)
    @@ ("03" :> 3) @@ ("04" :> 4) @@ ("59" :> 59)

parseInt(t) == DigitRuns[t]

\* val.match(/^(\d+):(\d+)-(\d+):(\d+)$/)
match(val) ==
    /\ Len(val) = 7
    /\ \A k \in {1, 3, 5, 7} : val[k] \in DOMAIN DigitRuns
    /\ val[2] = ":" /\ val[4] = "-" /\ val[6] = ":"

\* Texts typed into the field: every mm:ss-mm:ss over a few minutes and
\* seconds, and texts the pattern rejects (too short, a separator or a
\* group wrong, characters before, after or between).
TextInputs ==
    {<<a, ":", b, "-", c, ":", d>> :
        a \in {"0", "1"}, c \in {"0", "1"},
        b \in {"00", "01", "02", "03", "04", "59"},
        d \in {"00", "01", "02", "03", "04", "59"}}
    \cup {<<>>,
          <<"0", ":", "01">>,
          <<"0", ":", "01", "-">>,
          <<"0", ":", "01", "-", "0", ":", "x">>,
          <<"0", "-", "01", ":", "0", "-", "03">>,
          <<"0", ":", "01", "-", "0", ":", "03", "x">>,
          <<" ", "0", ":", "01", "-", "0", ":", "03">>,
          <<"0", ":", "01", " ", "-", " ", "0", ":", "03">>}

\* A handler without the test of the end against the duration.
handleCutInputChange_NoDurationTest(range, stateDuration, val) ==
    IF match(val) /\ stateDuration > 0
    THEN LET startTime == parseInt(val[1]) * 60 + parseInt(val[3])
             endTime == parseInt(val[5]) * 60 + parseInt(val[7])
         IN  IF startTime < endTime
             THEN <<(startTime * 100) \div stateDuration,
                    (endTime * 100) \div stateDuration>>
             ELSE range
    ELSE range

\* handleCutInputChange: the cut range after the field changed to val, with
\* processor.state.duration = stateDuration.  (t / duration) * 100 is the
\* integer (t * 100) / duration for the durations drawn here.
handleCutInputChange(range, stateDuration, val) ==
    IF match(val) /\ stateDuration > 0
    THEN LET startTime == parseInt(val[1]) * 60 + parseInt(val[3])
             endTime == parseInt(val[5]) * 60 + parseInt(val[7])
         IN  IF startTime < endTime /\ endTime <= stateDuration
             THEN <<(startTime * 100) \div stateDuration,
                    (endTime * 100) \div stateDuration>>
             ELSE range
    ELSE range

\* --------------------------------------------------------------- actions
\* loadFile calls awaiting their decode.
InFlight == inflight[1] + inflight[2] + inflight[3]

Init ==
    /\ ctxPresent \in BOOLEAN
    /\ audioBufferRef = 0
    /\ sourceNodeRef = 0
    /\ startTimeRef = 0
    /\ pauseTimeRef = 0
    /\ animationFrameRef = 0
    /\ isPlaying = FALSE
    /\ currentTime = 0
    /\ duration = 0
    /\ readers = <<>>
    /\ rafPending = {}
    /\ graph = InitGraph
    /\ inflight = [f \in FileIds |-> 0]
    /\ exportResult = [kind |-> "none"]
    /\ raised = FALSE
    /\ wav = [kind |-> "none"]
    /\ cutRange = <<0, 100>>
    /\ cutInput = <<>>

\* The audio clock advances by one unit: every stored clock reading moves
\* one unit into the past, every playing source has one unit less to play.
AdvanceClock ==
    /\ now - startTimeRef < MaxElapsed
    /\ startTimeRef' = startTimeRef - 1
    /\ readers' = [i \in 1..Len(readers) |->
                     [readers[i] EXCEPT !.endsIn = Max(0, @ - 1)]]
    /\ UNCHANGED <<ctxPresent, audioBufferRef, sourceNodeRef, pauseTimeRef,
                   animationFrameRef, isPlaying, currentTime, duration,
                   rafPending, graph, inflight, exportResult, raised, wav, cutRange, cutInput>>

PlayWith(c) ==
    /\ Commit(play(Cur, c))
    /\ UNCHANGED <<ctxPresent, inflight, exportResult, wav, cutRange, cutInput>>

Play ==
    \E c \in TransportControls :
        /\ Len(readers) < MaxReaders
        /\ PlayWith(c)

Pause ==
    /\ Commit(pause(Cur))
    /\ UNCHANGED <<ctxPresent, inflight, exportResult, wav, cutRange, cutInput>>

Stop ==
    /\ Commit(stop(Cur))
    /\ UNCHANGED <<ctxPresent, inflight, exportResult, wav, cutRange, cutInput>>

\* A requested animation frame runs its tick.
TickOf(l) ==
    /\ l \in rafPending
    /\ Commit(tick(CancelFrame(Cur, l.id), l))
    /\ UNCHANGED <<ctxPresent, inflight, exportResult, wav, cutRange, cutInput>>

Tick == \E l \in rafPending : TickOf(l)

\* The ended event of a reader is delivered: it was halted, or it has played
\* the length it was started with.
EndedOf(id) ==
    /\ readers[id].started
    /\ ~readers[id].ended
    /\ readers[id].endsIn = 0
    /\ Commit(onended([Cur EXCEPT !.readers[id].ended = TRUE]))
    /\ UNCHANGED <<ctxPresent, inflight, exportResult, wav, cutRange, cutInput>>

Ended == \E id \in 1..Len(readers) : EndedOf(id)

UpdateParamsWith(c) ==
    /\ Commit(updateParams(Cur, c))
    /\ UNCHANGED <<ctxPresent, inflight, exportResult, wav, cutRange, cutInput>>

\* updateParams() does not read the trim window.
UpdateParams == \E c \in {DefaultControls} : UpdateParamsWith(c)

LoadFileStartOf(f) ==
    /\ IF ctxPresent
       THEN /\ Commit(loadFileBegin(Cur))
            /\ inflight' = [inflight EXCEPT ![f] = @ + 1]
       ELSE /\ Commit(Cur)
            /\ UNCHANGED inflight
    /\ UNCHANGED <<ctxPresent, exportResult, wav, cutRange, cutInput>>

LoadFileStart ==
    \E f \in TransportFiles :
        /\ InFlight < MaxInflight
        /\ LoadFileStartOf(f)

LoadFileDone ==
    \E f \in FileIds :
        /\ inflight[f] > 0
        /\ Decodable(f)
        /\ Commit(loadFileEnd(Cur, f))
        /\ inflight' = [inflight EXCEPT ![f] = @ - 1]
        /\ UNCHANGED <<ctxPresent, exportResult, wav, cutRange, cutInput>>

LoadFileFail ==
    \E f \in FileIds :
        /\ inflight[f] > 0
        /\ ~Decodable(f)
        /\ Commit(loadFileFail(Cur))
        /\ inflight' = [inflight EXCEPT ![f] = @ - 1]
        /\ UNCHANGED <<ctxPresent, exportResult, wav, cutRange, cutInput>>

ExportAudioWith(c) ==
    \E impulse \in Impulses :
        /\ exportResult' = exportAudio(Cur, c, impulse)
        /\ Commit([Cur EXCEPT !.raised = (exportAudio(Cur, c, impulse).kind = "raised")])
        /\ UNCHANGED <<ctxPresent, inflight, wav, cutRange, cutInput>>

Next ==
    \/ AdvanceClock
    \/ Play
    \/ Pause
    \/ Stop
    \/ Tick
    \/ Ended
    \/ UpdateParams
    \/ LoadFileStart
    \/ LoadFileDone

\* The transport: every interleaving of the user's operations, the clock,
\* the poll frames and the ended events.
Spec == Init /\ [][Next]_vars

\* The offline render next to the realtime graph, over every preset
\* combination; the clock stands still.
ExportAudio == \E c \in ParamControls : ExportAudioWith(c)

NextParams ==
    \/ LoadFileStart
    \/ LoadFileDone
    \/ Play
    \/ Stop
    \/ UpdateParams
    \/ ExportAudio

SpecParams == Init /\ [][NextParams]_vars

\* The Parameter Mapper, over every preset combination; the clock stands
\* still.
PlayParams ==
    \E c \in MapperControls :
        /\ Len(readers) < MaxReaders
        /\ PlayWith(c)

UpdateParamsAny == \E c \in MapperControls : UpdateParamsWith(c)

ExportMapped ==
    \E v \in Pcts : ExportAudioWith([DefaultControls EXCEPT !.pitch = v])

NextMapper ==
    \/ LoadFileStart
    \/ LoadFileDone
    \/ PlayParams
    \/ Stop
    \/ UpdateParamsAny
    \/ ExportMapped

SpecMapper == Init /\ [][NextMapper]_vars

\* Uploads that decode and uploads that do not, interleaved with the
\* transport.
Upload ==
    \E f \in UploadFiles :
        /\ InFlight < MaxInflight
        /\ LoadFileStartOf(f)

NextUpload ==
    \/ AdvanceClock
    \/ Play
    \/ Pause
    \/ Stop
    \/ Tick
    \/ Ended
    \/ Upload
    \/ LoadFileDone
    \/ LoadFileFail

SpecUpload == Init /\ [][NextUpload]_vars

\* handleExport hands the rendered buffer to the encoder.
EncodeWav ==
    \E buffer \in Buffers :
        /\ wav' = [kind |-> "blob", buffer |-> buffer, blob |-> audioBufferToWav(buffer)]
        /\ UNCHANGED <<ctxPresent, audioBufferRef, sourceNodeRef, startTimeRef,
                       pauseTimeRef, animationFrameRef, isPlaying, currentTime,
                       duration, readers, rafPending, graph, inflight,
                       exportResult, raised, cutRange, cutInput>>

NextWav == EncodeWav

\* The WAV encoder applied to every buffer of Buffers.
SpecWav == Init /\ [][NextWav]_vars

\* The user edits the time-range field.
CutInputChange ==
    \E val \in TextInputs :
        /\ cutInput' = val
        /\ cutRange' = handleCutInputChange(cutRange, duration, val)
        /\ UNCHANGED <<ctxPresent, audioBufferRef, sourceNodeRef, startTimeRef,
                       pauseTimeRef, animationFrameRef, isPlaying, currentTime,
                       duration, readers, rafPending, graph, inflight,
                       exportResult, raised, wav>>

NextCut ==
    \/ Upload
    \/ LoadFileDone
    \/ LoadFileFail
    \/ CutInputChange

\* The time-range field edited between uploads of files of different
\* durations.
SpecCut == Init /\ [][NextCut]_vars

\* ================================================================ claims
\* The reader held in sourceNodeRef.
Held == readers[sourceNodeRef]

\* play() gets past its guard.
CanPlay == ctxPresent /\ audioBufferRef # 0

CutStartTimeOf(c) == CutTime(c.cutStart, FileDuration(audioBufferRef))
CutEndTimeOf(c) == CutTime(c.cutEnd, FileDuration(audioBufferRef))

\* The offset a play() call started its reader at, read back from the
\* session start clock it recorded (startTimeRef = now - startOffset).
StartedAt(st) == now - st.startTimeRef

\* C1: from every reachable state (every stored resume position) and for
\* every window with cutStart < cutEnd, play() starts the reader at a
\* startOffset with cutStartTime <= startOffset < cutEndTime, which is the
\* stored resume position when that lies in [cutStartTime, cutEndTime) and
\* cutStartTime otherwise, for the length cutEndTime - startOffset.
C1_TrimInvariant ==
    \A c \in TransportControls :
        (CanPlay /\ c.cutStart < c.cutEnd) =>
            LET cs == CutStartTimeOf(c)
                ce == CutEndTimeOf(c)
                p == pauseTimeRef
                s == play(Cur, c)
                off == StartedAt(s)
            IN  /\ cs <= off /\ off < ce
                /\ off = (IF cs <= p /\ p < ce THEN p ELSE cs)
                /\ s.sourceNodeRef = Len(readers) + 1
                /\ s.readers[s.sourceNodeRef].endsIn = ce - off

\* A session playing from cutStartTime although the stored resume position
\* lies at or after the end of its window.
C1_Witness ==
    /\ sourceNodeRef # 0
    /\ isPlaying
    /\ ~Held.halted
    /\ Held.cutStartTime < Held.cutEndTime
    /\ pauseTimeRef >= Held.cutEndTime
    /\ now - startTimeRef = Held.cutStartTime
    /\ Held.endsIn = Held.cutEndTime - Held.cutStartTime

\* C2: when a play session has run to the end of its window (its reader has
\* played the length it was started with and its ended event has been
\* delivered), the transport is Stopped and the following play() with the
\* same window starts at the session's cutStartTime.
C2_TrimBoundaryStop ==
    (sourceNodeRef # 0 /\ ~Held.halted /\ Held.ended
        /\ Held.cutStartTime < Held.cutEndTime) =>
            /\ ~isPlaying
            /\ startOffset(pauseTimeRef, Held.cutStartTime, Held.cutEndTime)
                   = Held.cutStartTime

\* C3: from every reachable state stop() leaves no reader held, resume
\* position 0, currentTime 0, isPlaying false, raises nothing, and a second
\* stop() changes nothing more.
C3_StopIdempotent ==
    LET s1 == stop(Cur)
    IN  /\ s1.sourceNodeRef = 0
        /\ s1.pauseTimeRef = 0
        /\ s1.currentTime = 0
        /\ ~s1.isPlaying
        /\ ~s1.raised
        /\ stop(s1) = s1

\* A state left by stop() called on a held reader: the reader is halted,
\* still connected, its ended event not yet delivered, and the session has
\* run for some time.
C3_Witness ==
    /\ sourceNodeRef = 0
    /\ pauseTimeRef = 0 /\ currentTime = 0 /\ ~isPlaying
    /\ startTimeRef < 0
    /\ \E i \in 1..Len(readers) :
          readers[i].halted /\ readers[i].connected /\ ~readers[i].ended

\* C4: pause() called while the transport is not Playing (no reader held
\* after stop(), or the held reader already halted by pause() or run to its
\* end) changes nothing.
C4_PauseRequiresPlaying ==
    (~isPlaying /\ (sourceNodeRef = 0 \/ Held.halted \/ Held.ended)) =>
        pause(Cur) = Cur

\* C5: pause() while Playing halts the held reader, records the resume
\* position now - startTimeRef, clears isPlaying and leaves no poll frame
\* requested; a following play() with a window that contains that position
\* starts the reader exactly there and records startTimeRef = now - position.
C5_PauseThenResume ==
    (isPlaying /\ sourceNodeRef # 0) =>
        LET s == pause(Cur)
            p == now - startTimeRef
        IN  /\ s.readers[sourceNodeRef].halted
            /\ s.pauseTimeRef = p
            /\ ~s.isPlaying
            /\ s.rafPending = {}
            /\ \A c \in TransportControls :
                  (CutStartTimeOf(c) <= p /\ p < CutEndTimeOf(c)) =>
                      LET s2 == play(s, c)
                      IN  /\ StartedAt(s2) = p
                          /\ s2.startTimeRef = now - p
                          /\ s2.readers[s2.sourceNodeRef].endsIn = CutEndTimeOf(c) - p

\* C6: at most one reader is started, not halted and connected; and from
\* every reachable state play() leaves the reader it found in sourceNodeRef
\* halted and disconnected.
C6_SingleOwner ==
    /\ Cardinality({i \in 1..Len(readers) :
            readers[i].started /\ ~readers[i].halted /\ readers[i].connected}) <= 1
    /\ \A c \in TransportControls :
          (CanPlay /\ sourceNodeRef # 0) =>
              LET s == play(Cur, c)
              IN  /\ s.readers[sourceNodeRef].halted
                  /\ ~s.readers[sourceNodeRef].connected
                  /\ Cardinality({i \in 1..Len(s.readers) :
                        s.readers[i].started /\ ~s.readers[i].halted
                            /\ s.readers[i].connected}) <= 1

\* A new reader playing while the one play() took over from is halted and
\* disconnected, its ended event still to come.
C6_Witness ==
    /\ sourceNodeRef # 0
    /\ ~Held.halted /\ Held.connected /\ Held.endsIn > 0
    /\ \E i \in 1..Len(readers) :
          /\ i # sourceNodeRef
          /\ readers[i].halted /\ ~readers[i].connected /\ ~readers[i].ended

\* C7: while a session started by play() is Playing, the ended event of a
\* reader halted before it leaves isPlaying true and the requested poll
\* frames as they are.
C7_PlaySupersedes ==
    \A id \in 1..Len(readers) :
        (sourceNodeRef # 0 /\ id < sourceNodeRef /\ isPlaying /\ ~Held.halted
            /\ readers[id].halted /\ ~readers[id].ended) =>
                LET s == onended([Cur EXCEPT !.readers[id].ended = TRUE])
                IN  s.isPlaying /\ s.rafPending = rafPending

\* C8: with no decoded source, play() changes nothing (no reader, no frame,
\* isPlaying, currentTime and resume position as before, nothing raised)
\* and exportAudio() resolves to null, for every controls value.
C8_NoSourceNoOp ==
    audioBufferRef = 0 =>
        \A c \in ParamControls :
            /\ play(Cur, c) = Cur
            /\ \A impulse \in Impulses :
                  exportAudio(Cur, c, impulse) = [kind |-> "null"]

\* An export that resolved to null: no source has been decoded.
C8_Witness ==
    /\ audioBufferRef = 0
    /\ exportResult = [kind |-> "null"]
    /\ readers = <<>> /\ rafPending = {} /\ ~isPlaying /\ ~raised

\* C9: play() with cutStart >= cutEnd starts its reader with length 0 and
\* returns with the transport Stopped: isPlaying false, no reader held, no
\* poll frame requested, nothing raised.
C9_EmptyWindowStops ==
    \A c \in TransportControls :
        (CanPlay /\ c.cutStart >= c.cutEnd) =>
            LET s == play(Cur, c)
            IN  /\ s.readers[Len(readers) + 1].endsIn = 0
                /\ ~s.isPlaying
                /\ s.sourceNodeRef = 0
                /\ s.rafPending = {}
                /\ ~s.raised

\* C10: for every (beautify, mastered) the offline render sets the
\* compressor threshold, knee and ratio the Parameter Mapper sets on the
\* realtime compressor for the same controls.
C10_CompressorParity ==
    \A c \in ParamControls, impulse \in Impulses :
        (ctxPresent /\ exportAudio(Cur, c, impulse).kind = "buffer") =>
            LET e == exportAudio(Cur, c, impulse)
                g == updateParams(Cur, c).graph
            IN  /\ e.threshold = g.threshold
                /\ e.knee = g.knee
                /\ e.ratio = g.ratio

\* C11: for both values of booster the offline render's master gain is the
\* gain the Parameter Mapper settles the realtime master gain on for the
\* same controls, 1.0 + (booster ? 1.5 : 0).
C11_MasterGainParity ==
    \A c \in ParamControls, impulse \in Impulses :
        (ctxPresent /\ exportAudio(Cur, c, impulse).kind = "buffer") =>
            /\ exportAudio(Cur, c, impulse).gain = updateParams(Cur, c).graph.gain
            /\ exportAudio(Cur, c, impulse).gain = 10 + (IF c.booster THEN 15 ELSE 0)

\* The graph left when a tap is taken out: whatever fed the tap feeds what
\* the tap fed.
WithoutTap(edges, tap) ==
    {e \in edges : e[1] # tap /\ e[2] # tap}
    \cup {<<a[1], b[2]>> : a \in {e \in edges : e[2] = tap},
                           b \in {e \in edges : e[1] = tap}}

\* C12: the connections of the offline render graph are those of the
\* realtime graph built by play(), the analyser tap aside: the source
\* reader, the 23 peaking stages in FREQS order, low shelf, high shelf,
\* compressor, the wet path (mix gain, convolver) and the dry path into the
\* master gain, and the sink.
C12_TopologyParity ==
    \A c \in ParamControls, impulse \in Impulses :
        (CanPlay /\ exportAudio(Cur, c, impulse).kind = "buffer") =>
            exportAudio(Cur, c, impulse).edges
                = WithoutTap(play(Cur, c).graph.edges, Node("analyser", 0))

\* C13: two exportAudio calls from the same state (the same loaded source)
\* with the same controls give the same rendered buffer, whatever impulse
\* each render generates, for every control value (roomSize 0 and > 0).
C13_ExportDeterminism ==
    \A c \in ParamControls, i1 \in Impulses, i2 \in Impulses :
        exportAudio(Cur, c, i1) = exportAudio(Cur, c, i2)

\* C14: a loadFile call whose decode fails leaves the decoded source,
\* duration, isPlaying, currentTime, the resume position and the held reader
\* as they were before the call.
C14_DecodeFailureNoChange ==
    ctxPresent =>
        LET s == loadFileFail(loadFileBegin(Cur))
        IN  /\ s.audioBufferRef = audioBufferRef
            /\ s.duration = duration
            /\ s.isPlaying = isPlaying
            /\ s.currentTime = currentTime
            /\ s.pauseTimeRef = pauseTimeRef
            /\ s.sourceNodeRef = sourceNodeRef

\* C15: exportAudio with a loaded source and cutStart >= cutEnd completes
\* without raising.
C15_InvalidWindowExport ==
    \A c \in ParamControls, impulse \in Impulses :
        (audioBufferRef # 0 /\ c.cutStart >= c.cutEnd) =>
            exportAudio(Cur, c, impulse).kind # "raised"

\* The control state with the same values but beautify on and mastered off.
BeautifyOnly(c) == [c EXCEPT !.beautify = TRUE, !.mastered = FALSE]

Percent == 0..100

\* C17: for every integer pitch in 0..100 the detune of the source reader
\* is (pitch - 50) * 24 cents on the reader play() creates, on the held
\* reader after updateParams(), and in the offline render; it is 0 for
\* pitch 50 and lies in -1200..1200.
C17_Detune ==
    \A pitch \in Percent :
        LET c == [DefaultControls EXCEPT !.pitch = pitch]
            cents == (pitch - 50) * 24
            InRange(d) == d \in -1200..1200 /\ (pitch = 50 => d = 0)
        IN  /\ CanPlay =>
                  LET d == play(Cur, c).readers[Len(readers) + 1].detune
                  IN  d = cents /\ InRange(d)
            /\ (ctxPresent /\ sourceNodeRef # 0) =>
                  LET d == updateParams(Cur, c).readers[sourceNodeRef].detune
                  IN  d = cents /\ InRange(d)
            /\ audioBufferRef # 0 =>
                  \A impulse \in Impulses :
                      LET d == exportAudio(Cur, c, impulse).detune
                      IN  d = cents /\ InRange(d)

\* A playing reader detuned an octave up (pitch 100) next to a render
\* detuned an octave down (pitch 0).
C17_Witness ==
    /\ sourceNodeRef # 0
    /\ ~Held.halted
    /\ Held.detune = 1200
    /\ exportResult.kind = "buffer"
    /\ exportResult.detune = -1200

\* An eqBands sequence in which every band has its own value: as v runs
\* over 0..100 every band takes every value, next to neighbours that hold
\* other values.
Sweep(v) == [k \in 1..NumBands |-> (v + 7 * k) % 101]

\* C18: for every eqBands sequence of 23 integers in 0..100 (here every
\* Sweep(v)) the Parameter Mapper targets (eqBands[i] - 50) / 2 dB on the
\* peaking stage centred at FREQS[i], each band from its own value alone
\* (band 0 is 20 Hz, band 22 is 3150 Hz); play() chains the stages after the
\* source reader in index order; and the bass and treble shelves get
\* (value - 50) / 2 dB, +25 dB for 100 and -25 dB for 0.
C18_EqMapping ==
    /\ \A v \in Percent :
          LET c == [DefaultControls EXCEPT !.eqBands = Sweep(v), !.bass = v,
                                           !.treble = 100 - v]
          IN  ctxPresent =>
                  LET g == updateParams(Cur, c).graph
                  IN  /\ \A i \in 1..NumBands :
                            /\ g.eq[i] = c.eqBands[i] - 50
                            /\ eqNodes[i] = Node("peaking", FREQS[i])
                      /\ Len(eqNodes) = NumBands
                      /\ eqNodes[1].freq = 200 /\ eqNodes[NumBands].freq = 31500
                      /\ g.bass = v - 50
                      /\ g.treble = (100 - v) - 50
                      /\ v = 100 => g.bass = 50
                      /\ v = 0 => g.bass = -50
    /\ \A v \in Pcts :
          LET c == [DefaultControls EXCEPT !.eqBands = Sweep(v)]
          IN  CanPlay =>
                  LET s == play(Cur, c)
                      e == s.graph.edges
                  IN  /\ \A i \in 1..NumBands : s.graph.eq[i] = c.eqBands[i] - 50
                      /\ <<Node("source", 0), eqNodes[1]>> \in e
                      /\ \A i \in 1..(NumBands - 1) : <<eqNodes[i], eqNodes[i + 1]>> \in e
                      /\ <<eqNodes[NumBands], bassNode>> \in e
                      /\ \A i \in 1..NumBands :
                            /\ Cardinality({x \in e : x[2] = eqNodes[i]}) = 1
                            /\ Cardinality({x \in e : x[1] = eqNodes[i]}) = 1

\* The realtime graph connected by play(), with the 20 Hz band cut by 25 dB
\* and every other band flat.
C18_Witness ==
    /\ sourceNodeRef # 0
    /\ graph.edges = playEdges
    /\ graph.eq[1] = -50
    /\ \A i \in 2..NumBands : graph.eq[i] = 0

\* C19: the data area holds every sample frame of the buffer once, in order
\* and channel-interleaved: the 16-bit value at byte 44 + 2 * (p * channels
\* + c) is the encoding of channels[c][p] for every frame p and channel c,
\* and the data-chunk length of the header is length * channels * 2.
C19_WavDataLayout ==
    wav.kind = "blob" =>
        LET buffer == wav.buffer
            ch == buffer.numberOfChannels
        IN  /\ wav.blob.dataLength = buffer.length * ch * 2
            /\ Len(wav.blob.data) = buffer.length * ch
            /\ \A p \in 0..(buffer.length - 1), c \in 0..(ch - 1) :
                  wav.blob.data[p * ch + c + 1] = encodeSample(buffer.channels[c][p])

\* C20: every sample s, clamped to [-1, 1], is encoded as trunc(s * 32768)
\* when s < 0 and as trunc(s * 32767) when s >= 0, and the result fits a
\* signed 16-bit integer.
C20_SampleScaling ==
    wav.kind = "blob" =>
        \A c \in DOMAIN wav.buffer.channels, p \in 0..(wav.buffer.length - 1) :
            LET n == wav.buffer.channels[c][p]
                s == Max(-SampleScale, Min(SampleScale, n))
            IN  /\ scaleSample(n) = Trunc(IF s < 0 THEN s * 32768 ELSE s * 32767,
                                          SampleScale)
                /\ scaleSample(n) \in -32768..32767

\* C21: at most one poll frame is requested at any time, and none once the
\* transport has left Playing (after pause, stop, natural end or
\* trim-boundary stop), also after play() called while an earlier session's
\* frame is still requested.
C21_SinglePoll ==
    /\ Cardinality(rafPending) <= 1
    /\ ~isPlaying => rafPending = {}

\* C22: in every reachable state 0 <= currentTime <= duration, also when a
\* loadFile of a shorter file completes while a session started on the
\* previous source is still polling.
C22_CurrentTimeInRange ==
    0 <= currentTime /\ currentTime <= duration

\* A reader that is sounding: started, not halted, with time left to play.
Sounding(r) == r.started /\ ~r.halted /\ r.endsIn > 0

\* C23: while a loadFile is in flight, play, pause, stop and exportAudio
\* have no effect on the session, so that when its decode completes the
\* transport is Stopped with currentTime 0, resume position 0, no reader
\* held or sounding, and the decoded file loaded.
C23_LoadFileExclusive ==
    \A f \in FileIds :
        (inflight[f] > 0 /\ Decodable(f)) =>
            /\ \A c \in TransportControls : play(Cur, c) = Cur
            /\ pause(Cur) = Cur
            /\ stop(Cur) = Cur
            /\ \A c \in TransportControls, impulse \in Impulses :
                  exportAudio(Cur, c, impulse).kind # "buffer"
            /\ LET s == loadFileEnd(Cur, f)
               IN  /\ ~s.isPlaying
                   /\ s.currentTime = 0
                   /\ s.pauseTimeRef = 0
                   /\ s.sourceNodeRef = 0
                   /\ \A i \in 1..Len(s.readers) : ~Sounding(s.readers[i])
                   /\ s.audioBufferRef = f

\* Controls with the reverb mix changed.
RoomControls ==
    {[DefaultControls EXCEPT !.roomSize = rs, !.fullRoom = fr, !.pitch = v,
                             !.booster = fr, !.bass = v, !.treble = v] :
        rs \in Pcts, fr \in BOOLEAN, v \in Pcts}

\* C24: after updateParams(controls) during a play session the live wet-mix
\* gain targets (roomSize / 100) * (fullRoom ? 1.0 : 0.5) for the new
\* controls, as detune, master gain, shelf gains and band gains target
\* their new values.
C24_WetMixFollowsControls ==
    \A c \in RoomControls :
        (ctxPresent /\ isPlaying /\ sourceNodeRef # 0) =>
            LET s == updateParams(Cur, c)
            IN  /\ s.graph.wet = c.roomSize * (IF c.fullRoom THEN 2 ELSE 1)
                /\ s.readers[sourceNodeRef].detune = (c.pitch - 50) * 24
                /\ s.graph.gain = 10 + (IF c.booster THEN 15 ELSE 0)
                /\ s.graph.bass = c.bass - 50
                /\ s.graph.treble = c.treble - 50
                /\ \A i \in 1..NumBands : s.graph.eq[i] = c.eqBands[i] - 50

\* C25: while the transport is Playing and stays Playing (no stop, pause,
\* natural end or trim-boundary stop, and no upload under way), no step
\* decreases the published currentTime, a play() called again and an
\* updateParams() included.
C25_CurrentTimeMonotone ==
    [][(isPlaying /\ isPlaying' /\ InFlight = 0 /\ inflight' = inflight)
          => currentTime' >= currentTime]_vars

\* Reasons the claim gives for a text to be ignored.
Ignored(val) ==
    \/ ~match(val)
    \/ duration = 0
    \/ parseInt(val[1]) * 60 + parseInt(val[3]) >= parseInt(val[5]) * 60 + parseInt(val[7])
    \/ parseInt(val[5]) * 60 + parseInt(val[7]) > duration

\* C26: the cut range always satisfies 0 <= cutStart < cutEnd <= 100: it
\* starts as <<0, 100>>, every text input leaves such a range, and a text
\* that does not match mm:ss-mm:ss, whose start is not before its end, whose
\* end exceeds the duration, or that arrives with no source loaded leaves
\* the range as it was.
C26_CutRangeValid ==
    /\ 0 <= cutRange[1] /\ cutRange[1] < cutRange[2] /\ cutRange[2] <= 100
    /\ \A val \in TextInputs :
          LET r == handleCutInputChange(cutRange, duration, val)
          IN  /\ 0 <= r[1] /\ r[1] < r[2] /\ r[2] <= 100
              /\ Ignored(val) => r = cutRange

\* A range set from the field (0:01-0:03 of a 4-unit source) that then
\* outlived an ignored text.
C26_Witness ==
    /\ cutRange = <<25, 75>>
    /\ duration > 0
    /\ Ignored(cutInput)

====
